---- MODULE Spec2Model ----
(***************************************************************************)
(* A model of smol-rgb (src/src/lib.rs): the 8-bit sRGB colour             *)
(* EncodedColor, the f32 colour LinearColor, the transfer functions        *)
(* between them, the packed-integer conversions, the text formatting and   *)
(* the serde adapters.                                                     *)
(*                                                                         *)
(* Every operation of the library is a pure function, so the state         *)
(* machine is a caller: it holds an argument, applies operations to it one *)
(* after the other, and records which operations it applied.               *)
(*                                                                         *)
(* Integers wider than TLC's 32-bit integers (u32 values, the exact        *)
(* products and quotients behind f32 arithmetic) are natural numbers held  *)
(* as little-endian sequences of limbs (BigNat).                           *)
(***************************************************************************)
EXTENDS Integers, Sequences, FiniteSets, TLC

VARIABLES
    endian,   \* the byte order of the target platform: "little" or "big"
    layout,   \* the order of LinearColor's fields in memory, as the compiler laid them out
    kind,     \* the type of val
    arg,      \* the argument of the first call
    calls,    \* the operations applied so far, in order
    val       \* the current value: arg, or the result of the last call

vars == <<endian, layout, kind, arg, calls, val>>

(***************************************************************************)
(* Natural numbers of any size (BigNat): the limbs of a number in radix    *)
(* Base, least significant first, with no leading zero limb; zero is <<>>. *)
(***************************************************************************)
Base == 2^15

RECURSIVE BigNorm(_)
BigNorm(a) ==
    IF a = <<>> THEN a
    ELSE IF a[Len(a)] = 0 THEN BigNorm(SubSeq(a, 1, Len(a) - 1)) ELSE a

RECURSIVE BigOfInt(_)
BigOfInt(n) == IF n = 0 THEN <<>> ELSE <<n % Base>> \o BigOfInt(n \div Base)

\* The value of a BigNat known to be below 2^30.
BigToInt(a) ==
    IF a = <<>> THEN 0
    ELSE IF Len(a) = 1 THEN a[1]
    ELSE a[1] + Base * a[2]

Limb(a, i) == IF i <= Len(a) THEN a[i] ELSE 0

\* The recursions below keep their progress in a record st: the digit i to do
\* next, the carry (or borrow, or remainder) so far and the digits found.
RECURSIVE AddR(_, _, _)
AddR(a, b, st) ==
    IF st.i > Len(a) /\ st.i > Len(b)
    THEN IF st.carry = 0 THEN st.out ELSE Append(st.out, st.carry)
    ELSE LET s == Limb(a, st.i) + Limb(b, st.i) + st.carry
         IN  AddR(a, b, [i |-> st.i + 1, carry |-> s \div Base, out |-> Append(st.out, s % Base)])

BigAdd(a, b) == AddR(a, b, [i |-> 1, carry |-> 0, out |-> <<>>])

\* a - b, for a >= b.
RECURSIVE SubR(_, _, _)
SubR(a, b, st) ==
    IF st.i > Len(a) THEN BigNorm(st.out)
    ELSE LET s == a[st.i] - Limb(b, st.i) - st.carry
         IN  IF s < 0
             THEN SubR(a, b, [i |-> st.i + 1, carry |-> 1, out |-> Append(st.out, s + Base)])
             ELSE SubR(a, b, [i |-> st.i + 1, carry |-> 0, out |-> Append(st.out, s)])

BigSub(a, b) == SubR(a, b, [i |-> 1, carry |-> 0, out |-> <<>>])

\* a * d, for 0 <= d <= Base.
RECURSIVE MulSmallR(_, _, _)
MulSmallR(a, d, st) ==
    IF st.i > Len(a)
    THEN IF st.carry = 0 THEN st.out ELSE Append(st.out, st.carry)
    ELSE LET s == a[st.i] * d + st.carry
         IN  MulSmallR(a, d, [i |-> st.i + 1, carry |-> s \div Base, out |-> Append(st.out, s % Base)])

BigMulSmall(a, d) ==
    IF d = 0 \/ a = <<>> THEN <<>> ELSE MulSmallR(a, d, [i |-> 1, carry |-> 0, out |-> <<>>])

BigShiftLimbs(a, n) == IF a = <<>> THEN a ELSE [k \in 1..n |-> 0] \o a

\* One row of a product: the digits of acc[off + 1 ..] + a * d.
RECURSIVE MulRowR(_, _, _, _, _)
MulRowR(acc, a, d, off, st) ==
    IF st.i > Len(a) THEN Append(st.out, st.carry)
    ELSE LET s == acc[off + st.i] + a[st.i] * d + st.carry
         IN  MulRowR(acc, a, d, off,
                     [i |-> st.i + 1, carry |-> s \div Base, out |-> Append(st.out, s % Base)])

\* a * b, a row for each digit of b: st is the digit i of b to do next and the
\* sum of the rows so far, in Len(a) + Len(b) digits.
RECURSIVE MulR(_, _, _)
MulR(a, b, st) ==
    IF st.i > Len(b) THEN BigNorm(st.acc)
    ELSE LET row == MulRowR(st.acc, a, b[st.i], st.i - 1, [i |-> 1, carry |-> 0, out |-> <<>>])
         IN  MulR(a, b, [i |-> st.i + 1,
                         acc |-> SubSeq(st.acc, 1, st.i - 1) \o row
                                     \o SubSeq(st.acc, st.i + Len(a) + 1, Len(st.acc))])

BigMul(a, b) ==
    IF a = <<>> \/ b = <<>> THEN <<>>
    ELSE MulR(a, b, [i |-> 1, acc |-> [k \in 1..(Len(a) + Len(b)) |-> 0]])

RECURSIVE CmpR(_, _, _)
CmpR(a, b, i) ==
    IF i = 0 THEN 0
    ELSE IF a[i] < b[i] THEN -1
    ELSE IF a[i] > b[i] THEN 1
    ELSE CmpR(a, b, i - 1)

\* -1, 0 or 1 as a < b, a = b or a > b.
BigCmp(a, b) ==
    IF Len(a) < Len(b) THEN -1
    ELSE IF Len(a) > Len(b) THEN 1
    ELSE CmpR(a, b, Len(a))

BigLt(a, b) == BigCmp(a, b) = -1
BigLe(a, b) == BigCmp(a, b) # 1

\* Quotient and remainder of a by d, for 1 <= d <= 2 * Base.
RECURSIVE DivSmallR(_, _, _)
DivSmallR(a, d, st) ==
    IF st.i = 0 THEN [q |-> BigNorm(st.out), r |-> st.carry]
    ELSE LET cur == st.carry * Base + a[st.i]
         IN  DivSmallR(a, d, [i |-> st.i - 1, carry |-> cur % d, out |-> <<cur \div d>> \o st.out])

BigDivMod(a, d) == DivSmallR(a, d, [i |-> Len(a), carry |-> 0, out |-> <<>>])
BigDivSmall(a, d) == BigDivMod(a, d).q
BigModSmall(a, d) == BigDivMod(a, d).r

RECURSIVE BigPow(_, _)
BigPow(a, n) ==
    IF n = 0 THEN <<1>>
    ELSE IF n = 1 THEN a
    ELSE IF n % 2 = 0 THEN LET h == BigPow(a, n \div 2) IN BigMul(h, h)
    ELSE BigMul(a, BigPow(a, n - 1))

\* 2^n * a and floor(a / 2^n).
BigShl(a, n) == BigMulSmall(BigShiftLimbs(a, n \div 15), 2^(n % 15))

BigShr(a, n) ==
    IF Len(a) <= n \div 15 THEN <<>>
    ELSE BigDivSmall(SubSeq(a, n \div 15 + 1, Len(a)), 2^(n % 15))

RECURSIVE IntBitLen(_)
IntBitLen(n) == IF n = 0 THEN 0 ELSE 1 + IntBitLen(n \div 2)

\* The number of bits of a: 0 for zero, else floor(log2(a)) + 1.
BigBitLen(a) == IF a = <<>> THEN 0 ELSE 15 * (Len(a) - 1) + IntBitLen(a[Len(a)])

\* 2^n * a for any integer n, rounded down when n < 0.
BigScale(a, n) == IF n >= 0 THEN BigShl(a, n) ELSE BigShr(a, -n)

\* Quotient and remainder of n by any d > 0, by binary long division: qr is
\* the quotient and the remainder so far.
RECURSIVE DivBigR(_, _, _)
DivBigR(d, i, qr) ==
    IF i < 0 THEN qr
    ELSE LET t == BigShl(d, i)
         IN  IF BigLe(t, qr.r)
             THEN DivBigR(d, i - 1, [q |-> BigAdd(qr.q, BigShl(<<1>>, i)), r |-> BigSub(qr.r, t)])
             ELSE DivBigR(d, i - 1, qr)

BigDivBig(n, d) ==
    IF BigLt(n, d) THEN [q |-> <<>>, r |-> n]
    ELSE DivBigR(d, BigBitLen(n) - BigBitLen(d), [q |-> <<>>, r |-> n])

\* floor(x^(1/n)) for n >= 1, found bit by bit from the top.
RECURSIVE IRootR(_, _, _, _)
IRootR(x, n, i, r) ==
    IF i < 0 THEN r
    ELSE LET cand == BigAdd(r, BigShl(<<1>>, i))
         IN  IF BigLe(BigPow(cand, n), x) THEN IRootR(x, n, i - 1, cand)
             ELSE IRootR(x, n, i - 1, r)

BigRoot(x, n) == IRootR(x, n, BigBitLen(x) \div n, <<>>)

(***************************************************************************)
(* f32: IEEE 754 binary32.  A finite value is (-1)^sign * m * 2^e in its   *)
(* one canonical form: 2^23 <= m < 2^24 and -149 <= e <= 104 (normal), or  *)
(* m < 2^23 and e = -149 (subnormal, and zero).  Arithmetic is the exact   *)
(* result rounded to the nearest value, ties to the even mantissa.         *)
(***************************************************************************)
Finite(sign, m, e) == [cls |-> "finite", sign |-> sign, m |-> m, e |-> e]
Infinity(sign) == [cls |-> "inf", sign |-> sign]
NaN == [cls |-> "nan"]

Max(x, y) == IF x > y THEN x ELSE y
Min(x, y) == IF x < y THEN x ELSE y

\* The f32 nearest to (-1)^sign * v, for the real v with
\* v = n * 2^x (sticky false) or n * 2^x < v < (n + 1) * 2^x (sticky true);
\* a sticky n has more than 25 bits.
RoundDyadic(sign, n, x, sticky) ==
    LET len == BigBitLen(n)
        s == Max(len - 24, -149 - x)
    IN  IF s <= 0
        THEN \* exact: as many leading bits as the exponent range allows
             LET k == IF len = 0 THEN x + 149 ELSE (IF 24 - len < x + 149 THEN 24 - len ELSE x + 149)
             IN  IF x - k > 104 THEN Infinity(sign)
                 ELSE Finite(sign, BigToInt(BigShl(n, k)), x - k)
        ELSE LET q == BigShr(n, s)
                 rem == BigSub(n, BigShl(q, s))
                 cmp == BigCmp(rem, BigShl(<<1>>, s - 1))
                 qi == BigToInt(q)
                 up == cmp = 1 \/ (cmp = 0 /\ (sticky \/ qi % 2 = 1))
                 m == IF up THEN qi + 1 ELSE qi
                 m1 == IF m = 2^24 THEN 2^23 ELSE m
                 e1 == IF m = 2^24 THEN x + s + 1 ELSE x + s
             IN  IF e1 > 104 THEN Infinity(sign) ELSE Finite(sign, m1, e1)

\* n / 10^s rounded down, with whether anything was dropped.
RECURSIVE DivPow10(_, _, _)
DivPow10(n, s, sticky) ==
    IF s = 0 THEN [q |-> n, sticky |-> sticky]
    ELSE LET qr == BigDivMod(n, 10)
         IN  DivPow10(qr.q, s - 1, sticky \/ qr.r # 0)

\* The f32 literal with the decimal digits d and s of them after the point:
\* the f32 nearest to d / 10^s.
F32Lit(d, s) ==
    LET k == 4 * s + 32
        qs == DivPow10(BigShl(BigOfInt(d), k), s, FALSE)
    IN  RoundDyadic(0, qs.q, -k, qs.sticky)

\* u8 as f32
U8AsF32(n) == RoundDyadic(0, BigOfInt(n), 0, FALSE)

IsZero(a) == a.cls = "finite" /\ a.m = 0

F32Mul(a, b) ==
    IF a.cls = "nan" \/ b.cls = "nan" THEN NaN
    ELSE IF a.cls = "inf" \/ b.cls = "inf"
         THEN IF IsZero(a) \/ IsZero(b) THEN NaN ELSE Infinity((a.sign + b.sign) % 2)
         ELSE RoundDyadic((a.sign + b.sign) % 2, BigMul(BigOfInt(a.m), BigOfInt(b.m)),
                          a.e + b.e, FALSE)

F32Neg(a) == IF a.cls = "nan" THEN a ELSE [a EXCEPT !.sign = 1 - a.sign]

F32Add(a, b) ==
    IF a.cls = "nan" \/ b.cls = "nan" THEN NaN
    ELSE IF a.cls = "inf"
         THEN IF b.cls = "inf" /\ b.sign # a.sign THEN NaN ELSE a
    ELSE IF b.cls = "inf" THEN b
    ELSE LET x == IF a.e < b.e THEN a.e ELSE b.e
             am == BigShl(BigOfInt(a.m), a.e - x)
             bm == BigShl(BigOfInt(b.m), b.e - x)
         IN  IF a.sign = b.sign THEN RoundDyadic(a.sign, BigAdd(am, bm), x, FALSE)
             ELSE IF BigLt(am, bm) THEN RoundDyadic(b.sign, BigSub(bm, am), x, FALSE)
             ELSE IF BigLt(bm, am) THEN RoundDyadic(a.sign, BigSub(am, bm), x, FALSE)
             ELSE RoundDyadic(0, <<>>, x, FALSE)

F32Sub(a, b) == F32Add(a, F32Neg(b))

\* a / b for finite a and finite b # 0.
F32Div(a, b) ==
    LET qr == BigDivBig(BigShl(BigOfInt(a.m), 60), BigOfInt(b.m))
    IN  RoundDyadic((a.sign + b.sign) % 2, qr.q, a.e - b.e - 60, qr.r # <<>>)

\* a >= b
F32Ge(a, b) ==
    IF a.cls = "nan" \/ b.cls = "nan" THEN FALSE
    ELSE IF IsZero(a) /\ IsZero(b) THEN TRUE
    ELSE IF a.sign # b.sign THEN a.sign = 0
    ELSE IF a.cls = "inf" THEN a.sign = 0 \/ b.cls = "inf"
    ELSE IF b.cls = "inf" THEN b.sign = 1
    ELSE LET x == IF a.e < b.e THEN a.e ELSE b.e
             c == BigCmp(BigShl(BigOfInt(a.m), a.e - x), BigShl(BigOfInt(b.m), b.e - x))
         IN  IF a.sign = 0 THEN c >= 0 ELSE c <= 0

\* f32 as u8 without a defined result outside 0..255: 256 stands for the
\* failure of a value the byte cannot hold (NaN, an infinity, below 0, 256 or more).
F32AsU8_unchecked(a) ==
    IF a.cls # "finite" THEN 256
    ELSE IF a.m = 0 THEN 0
    ELSE IF a.sign = 1 THEN (IF a.e < -24 THEN 0 ELSE 256)
    ELSE IF a.e < -24 THEN 0
    ELSE IF a.e >= 0 THEN 256
    ELSE IF a.m \div 2^(-a.e) > 255 THEN 256 ELSE a.m \div 2^(-a.e)

\* f32 as u8 that wraps: the integer part modulo 256; NaN and the infinities are 0.
F32AsU8_wrapping(a) ==
    IF a.cls # "finite" THEN 0
    ELSE IF a.m = 0 \/ a.e < -24 THEN 0
    ELSE LET n == IF a.e >= 8 THEN 0
                  ELSE IF a.e >= 0 THEN (a.m * 2^a.e) % 256
                  ELSE (a.m \div 2^(-a.e)) % 256
         IN  IF a.sign = 1 THEN (256 - n) % 256 ELSE n

\* f32 as u8: the value truncated toward zero and saturated to 0..255; NaN is 0.
F32AsU8(a) ==
    IF a.cls = "nan" THEN 0
    ELSE IF a.cls = "inf" THEN (IF a.sign = 1 THEN 0 ELSE 255)
    ELSE IF a.sign = 1 \/ a.m = 0 \/ a.e < -24 THEN 0
    ELSE IF a.e >= 0 THEN 255
    ELSE Min(255, a.m \div 2^(-a.e))

(***************************************************************************)
(* The transfer functions.                                                 *)
(***************************************************************************)
\* The literals of ENCODED_TO_LINEAR_LUT, in order: <<d, s>> is the literal
\* with the digits d, s of them after the decimal point (0.000303527 is
\* <<303527, 9>>).
LutLiterals == <<
    <<0, 1>>, <<303527, 9>>, <<607054, 9>>, <<910581, 9>>, <<1214108, 9>>,
    <<1517635, 9>>, <<1821162, 9>>, <<21246888, 10>>, <<2428216, 9>>,
    <<27317428, 10>>, <<303527, 8>>, <<33465358, 10>>, <<36765074, 10>>,
    <<4024717, 9>>, <<4391442, 9>>, <<47769533, 10>>, <<51815165, 10>>,
    <<56053917, 10>>, <<6048833, 9>>, <<65120906, 10>>, <<699541, 8>>,
    <<7499032, 9>>, <<8023193, 9>>, <<8568126, 9>>, <<9134059, 9>>,
    <<9721218, 9>>, <<10329823, 9>>, <<10960094, 9>>, <<11612245, 9>>,
    <<12286488, 9>>, <<129830325, 10>>, <<13702083, 9>>, <<14443844, 9>>,
    <<15208514, 9>>, <<15996294, 9>>, <<16807375, 9>>, <<17641954, 9>>,
    <<1850022, 8>>, <<19382361, 9>>, <<20288562, 9>>, <<2121901, 8>>,
    <<22173885, 9>>, <<23153367, 9>>, <<24157632, 9>>, <<2518686, 8>>,
    <<26241222, 9>>, <<27320892, 9>>, <<2842604, 8>>, <<29556835, 9>>,
    <<30713445, 9>>, <<31896032, 9>>, <<33104766, 9>>, <<34339808, 9>>,
    <<35601314, 9>>, <<3688945, 8>>, <<38204372, 9>>, <<39546236, 9>>,
    <<409152, 7>>, <<4231141, 8>>, <<4373503, 8>>, <<45186203, 9>>,
    <<46665087, 9>>, <<48171826, 9>>, <<49706567, 9>>, <<51269457, 9>>,
    <<52860647, 9>>, <<54480277, 9>>, <<5612849, 8>>, <<5780543, 8>>,
    <<59511237, 9>>, <<61246052, 9>>, <<63010015, 9>>, <<64803265, 9>>,
    <<6662594, 8>>, <<6847817, 8>>, <<70360094, 9>>, <<7227185, 8>>,
    <<7421357, 8>>, <<7618538, 8>>, <<7818742, 8>>, <<8021982, 8>>,
    <<8228271, 8>>, <<8437621, 8>>, <<8650046, 8>>, <<8865558, 8>>,
    <<9084171, 8>>, <<93058966, 9>>, <<9530747, 8>>, <<9758735, 8>>,
    <<99898726, 9>>, <<10224173, 8>>, <<104616486, 9>>, <<107023105, 9>>,
    <<10946171, 8>>, <<11193243, 8>>, <<114435375, 9>>, <<116970666, 9>>,
    <<11953843, 8>>, <<122138776, 9>>, <<12477182, 8>>, <<12743768, 8>>,
    <<13013647, 8>>, <<13286832, 8>>, <<13563333, 8>>, <<13843161, 8>>,
    <<14126329, 8>>, <<14412847, 8>>, <<14702727, 8>>, <<14995979, 8>>,
    <<15292615, 8>>, <<15592647, 8>>, <<15896083, 8>>, <<16202937, 8>>,
    <<1651322, 7>>, <<1682694, 7>>, <<17144111, 8>>, <<1746474, 7>>,
    <<17788842, 8>>, <<18116425, 8>>, <<18447499, 8>>, <<18782078, 8>>,
    <<19120169, 8>>, <<19461784, 8>>, <<19806932, 8>>, <<20155625, 8>>,
    <<20507874, 8>>, <<20863687, 8>>, <<21223076, 8>>, <<2158605, 7>>,
    <<2195262, 7>>, <<22322796, 8>>, <<22696587, 8>>, <<23074006, 8>>,
    <<23455058, 8>>, <<23839757, 8>>, <<24228112, 8>>, <<24620132, 8>>,
    <<25015828, 8>>, <<2541521, 7>>, <<25818285, 8>>, <<26225066, 8>>,
    <<2663556, 7>>, <<2704978, 7>>, <<2746773, 7>>, <<27889428, 8>>,
    <<28314874, 8>>, <<28744084, 8>>, <<29177064, 8>>, <<29613826, 8>>,
    <<30054379, 8>>, <<3049873, 7>>, <<30946892, 8>>, <<31398872, 8>>,
    <<31854677, 8>>, <<3231432, 7>>, <<3277781, 7>>, <<33245152, 8>>,
    <<33716363, 8>>, <<34191442, 8>>, <<34670407, 8>>, <<3515326, 7>>,
    <<35640013, 8>>, <<3613068, 7>>, <<3662526, 7>>, <<3712377, 7>>,
    <<37626213, 8>>, <<38132602, 8>>, <<38642943, 8>>, <<39157248, 8>>,
    <<39675522, 8>>, <<40197778, 8>>, <<4072402, 7>>, <<4125426, 7>>,
    <<41788507, 8>>, <<42326766, 8>>, <<4286905, 7>>, <<43415365, 8>>,
    <<43965718, 8>>, <<4452012, 7>>, <<4507858, 7>>, <<45641103, 8>>,
    <<462077, 6>>, <<4677838, 7>>, <<47353148, 8>>, <<47932017, 8>>,
    <<48514995, 8>>, <<49102086, 8>>, <<49693298, 8>>, <<5028865, 7>>,
    <<50888133, 8>>, <<5149177, 7>>, <<52099556, 8>>, <<5271151, 7>>,
    <<5332764, 7>>, <<5394795, 7>>, <<54572445, 8>>, <<55201143, 8>>,
    <<5583404, 7>>, <<5647115, 7>>, <<57112485, 8>>, <<57758045, 8>>,
    <<58407843, 8>>, <<59061885, 8>>, <<59720176, 8>>, <<60382736, 8>>,
    <<61049557, 8>>, <<6172066, 7>>, <<6239604, 7>>, <<63075715, 8>>,
    <<63759685, 8>>, <<6444797, 7>>, <<65140563, 8>>, <<65837485, 8>>,
    <<6653873, 7>>, <<67244315, 8>>, <<6795425, 7>>, <<6866853, 7>>,
    <<69387174, 8>>, <<7011019, 7>>, <<70837575, 8>>, <<7156935, 7>>,
    <<7230551, 7>>, <<73046076, 8>>, <<7379104, 7>>, <<7454042, 7>>,
    <<7529422, 7>>, <<7605245, 7>>, <<76815116, 8>>, <<7758222, 7>>,
    <<7835378, 7>>, <<7912979, 7>>, <<7991027, 7>>, <<80695224, 8>>,
    <<8148466, 7>>, <<82278574, 8>>, <<8307699, 7>>, <<838799, 6>>,
    <<8468732, 7>>, <<8549926, 7>>, <<8631572, 7>>, <<8713671, 7>>,
    <<8796224, 7>>, <<8879231, 7>>, <<8962694, 7>>, <<9046612, 7>>,
    <<91309863, 8>>, <<92158186, 8>>, <<9301109, 7>>, <<9386857, 7>>,
    <<9473065, 7>>, <<9559733, 7>>, <<9646863, 7>>, <<9734453, 7>>,
    <<9822506, 7>>, <<9911021, 7>>, <<10, 1>>
    >>

\* The table with the entries of the bytes 100 and 101 in each other's place.
ENCODED_TO_LINEAR_LUT_swapped ==
    [c \in 0..255 |->
        LET k == IF c = 100 THEN 101 ELSE IF c = 101 THEN 100 ELSE c
        IN  F32Lit(LutLiterals[k + 1][1], LutLiterals[k + 1][2])]

ENCODED_TO_LINEAR_LUT ==
    [c \in 0..255 |-> F32Lit(LutLiterals[c + 1][1], LutLiterals[c + 1][2])]

\* encoded_to_linear reading the entry after c's.
encoded_to_linear_next_entry(c) == ENCODED_TO_LINEAR_LUT[(c + 1) % 256]

encoded_to_linear(c) == ENCODED_TO_LINEAR_LUT[c]

\* The f32 literals of linear_to_encoded and of the alpha conversions.
Lit_0_0031308 == F32Lit(31308, 7)
Lit_1_055 == F32Lit(1055, 3)
Lit_0_055 == F32Lit(55, 3)
Lit_12_92 == F32Lit(1292, 2)
Lit_256_0 == F32Lit(2560, 1)
Lit_255_0 == F32Lit(2550, 1)
Lit_1_0 == F32Lit(10, 1)
Lit_2_4 == F32Lit(24, 1)

\* 1.0 / 2.4
InvGamma == F32Div(Lit_1_0, Lit_2_4)

(***************************************************************************)
(* powf is the platform's (std's f32::powf or libm::powf) and is not       *)
(* correctly rounded, so the call has a set of possible results.  The      *)
(* library calls it with the exponent 1.0 / 2.4 only.  That f32 differs    *)
(* from 5/12 by less than 2^-26, which moves x^y by less than one unit in  *)
(* the last place for the x the library passes (x >= 0.0031308), and the   *)
(* platform's powf is within one more: the results are the f32 values      *)
(* within PowUlps units in the last place of the real x^(5/12).  x^(5/12)  *)
(* is bracketed by the integer 12th root of x^5 scaled by a power of two.  *)
(* powf(1.0, y) is exactly 1.0 and powf(+0.0, y) is +0.0 for y > 0; a      *)
(* negative x gives NaN, as NaN does, and +infinity gives +infinity.       *)
(***************************************************************************)
PowUlps == 4

powf(x, y) ==
    CASE y = InvGamma ->
        IF x.cls = "nan" THEN {NaN}
        ELSE IF IsZero(x) THEN {Finite(0, 0, -149)}
        ELSE IF x.sign = 1 THEN {NaN}
        ELSE IF x.cls = "inf" THEN {x}
        ELSE IF x = Lit_1_0 THEN {x}
        ELSE LET l == IntBitLen(x.m) + x.e          \* 2^(l-1) <= x < 2^l
                 p == 23 - ((5 * (l - 1)) \div 12)   \* 2^23 <= x^(5/12) * 2^p < 2^25
                 t == BigRoot(BigScale(BigPow(BigOfInt(x.m), 5), 5 * x.e + 12 * p), 12)
                 sh == BigBitLen(t) - 24
                 m0 == BigToInt(BigShr(t, sh))
             IN  {RoundDyadic(0, BigOfInt(m0 + d), sh - p, FALSE) :
                      d \in (0 - PowUlps)..(PowUlps + 1)}

\* The encoded_f32 of linear_to_encoded: the curve value of input, one for
\* each possible result of powf.
encoded_f32(input) ==
    IF F32Ge(input, Lit_0_0031308)
    THEN {F32Sub(F32Mul(Lit_1_055, pw), Lit_0_055) : pw \in powf(input, InvGamma)}
    ELSE {F32Mul(Lit_12_92, input)}

\* linear_to_encoded ending in a multiplication by 255.
linear_to_encoded_times_255(input) ==
    {F32AsU8(F32Mul(enc, Lit_255_0)) : enc \in encoded_f32(input)}

\* linear_to_encoded: the set of the bytes it can return for input, one for
\* each possible result of powf.
linear_to_encoded(input) ==
    {F32AsU8(F32Mul(enc, Lit_256_0)) : enc \in encoded_f32(input)}

(***************************************************************************)
(* tests::test_lut's srgb_to_linear_high_precision computes the sRGB EOTF  *)
(* in f64 and casts the result to f32.  The f64 result is the real value   *)
(* of the formula up to the rounding of its operations and of f64::powf:   *)
(* a relative error of at most F64Ulps * 2^-53.  The function's possible   *)
(* results are the f32 values nearest to the ends of that interval (equal, *)
(* unless the real value is that close to the midpoint of two f32 values). *)
(***************************************************************************)
F64Ulps == 64

\* The f32 casts of the f64 values around the real v, t <= v * 2^p < t + 1.
F64AsF32(t, p) ==
    LET err == BigAdd(BigShr(BigMulSmall(t, F64Ulps), 53), <<1>>)
    IN  {RoundDyadic(0, BigSub(t, err), 0 - p, FALSE),
         RoundDyadic(0, BigAdd(BigAdd(t, err), <<1>>), 0 - p, FALSE)}

\* n / d^k rounded down, for d <= 2 * Base.
RECURSIVE DivPowSmall(_, _, _)
DivPowSmall(n, d, k) ==
    IF k = 0 \/ n = <<>> THEN n ELSE DivPowSmall(BigDivSmall(n, d), d, k - 1)

\* c > 0.04045 for c = component / 255.0: the outcomes the f64 rounding allows.
AboveThreshold(component) ==
    LET lhs == BigMul(BigOfInt(component), BigOfInt(100000))
        rhs == BigOfInt(4045 * 255)
        up == BigAdd(BigShl(<<1>>, 53), BigOfInt(F64Ulps))
        dn == BigSub(BigShl(<<1>>, 53), BigOfInt(F64Ulps))
    IN  (IF BigLt(BigMul(rhs, dn), BigMul(lhs, up)) THEN {TRUE} ELSE {})
            \cup (IF BigLe(BigMul(lhs, dn), BigMul(rhs, up)) THEN {FALSE} ELSE {})

\* ((c + 0.055) / 1.055).powf(2.4) for c = component / 255.0: the real value is
\* ((1000 * component + 14025) / (255 * 1055))^(12/5), bracketed by the integer
\* 5th root of its 12th power scaled by 2^240.
srgb_power(component) ==
    LET n12 == BigPow(BigOfInt(1000 * component + 14025), 12)
        x == DivPowSmall(DivPowSmall(BigShl(n12, 240), 255, 12), 1055, 12)
    IN  F64AsF32(BigRoot(x, 5), 48)

\* c / 12.92 for c = component / 255.0: the real value is
\* 100 * component / (255 * 1292).
srgb_linear(component) ==
    IF component = 0 THEN {Finite(0, 0, -149)}
    ELSE F64AsF32(BigDivSmall(BigDivSmall(BigShl(BigOfInt(100 * component), 80), 255), 1292), 80)

srgb_to_linear_high_precision(component) ==
    UNION {IF above THEN srgb_power(component) ELSE srgb_linear(component) :
               above \in AboveThreshold(component)}

(***************************************************************************)
(* EncodedColor: four u8 channels r, g, b, a.                              *)
(***************************************************************************)
Byte == 0..255

EncodedColor == [r : Byte, g : Byte, b : Byte, a : Byte]

new(r, g, b, a) == [r |-> r, g |-> g, b |-> b, a |-> a]

(***************************************************************************)
(* u32 values are BigNats below 2^32.  to_ne_bytes and from_ne_bytes are   *)
(* the platform's: bytes[0] is the least significant byte on a             *)
(* little-endian target and the most significant one on a big-endian one.  *)
(* A byte array is a function on 0..3, indexed as in the source.           *)
(***************************************************************************)
RECURSIVE ByteOf(_, _)
ByteOf(x, i) == IF i = 0 THEN BigModSmall(x, 256) ELSE ByteOf(BigDivSmall(x, 256), i - 1)

\* The u32 whose bytes are b3 b2 b1 b0, most significant first.
U32OfBytes(b3, b2, b1, b0) ==
    BigAdd(BigMulSmall(BigAdd(BigMulSmall(BigAdd(BigMulSmall(BigOfInt(b3), 256),
        BigOfInt(b2)), 256), BigOfInt(b1)), 256), BigOfInt(b0))

to_ne_bytes(en, x) ==
    IF en = "little" THEN [i \in 0..3 |-> ByteOf(x, i)]
    ELSE [i \in 0..3 |-> ByteOf(x, 3 - i)]

from_ne_bytes(en, bytes) ==
    IF en = "little" THEN U32OfBytes(bytes[3], bytes[2], bytes[1], bytes[0])
    ELSE U32OfBytes(bytes[0], bytes[1], bytes[2], bytes[3])

\* from_bgra_u32 with the red and blue bytes taken from each other's place.
from_bgra_u32_swapped(en, input) ==
    LET bytes == to_ne_bytes(en, input)
    IN  [r |-> bytes[3], g |-> bytes[2], b |-> bytes[1], a |-> bytes[0]]

\* to_rgba_u32 with the bytes written in memory order r, g, b, a.
to_rgba_u32_memory_order(en, self) ==
    LET bytes == [i \in 0..3 |->
                    CASE i = 0 -> self.r [] i = 1 -> self.g
                      [] i = 2 -> self.b [] i = 3 -> self.a]
    IN  from_ne_bytes(en, bytes)

\* to_bgra_u32 with alpha written to bytes[3] and blue to bytes[0].
to_bgra_u32_alpha_last(en, self) ==
    LET bytes == [i \in 0..3 |->
                    CASE i = 1 -> self.r [] i = 2 -> self.g
                      [] i = 0 -> self.b [] i = 3 -> self.a]
    IN  from_ne_bytes(en, bytes)

\* from_bits_u32: the u32's bytes in memory are the struct's, whose fields are
\* in the order r, g, b, a (repr(C)).
from_bits_u32(en, value) ==
    LET bytes == to_ne_bytes(en, value)
    IN  [r |-> bytes[0], g |-> bytes[1], b |-> bytes[2], a |-> bytes[3]]

from_rgba_u32(en, input) ==
    LET bytes == to_ne_bytes(en, input)
    IN  [r |-> bytes[3], g |-> bytes[2], b |-> bytes[1], a |-> bytes[0]]

to_rgba_u32(en, self) ==
    LET bytes == [i \in 0..3 |->
                    CASE i = 3 -> self.r [] i = 2 -> self.g
                      [] i = 1 -> self.b [] i = 0 -> self.a]
    IN  from_ne_bytes(en, bytes)

from_bgra_u32(en, input) ==
    LET bytes == to_ne_bytes(en, input)
    IN  [r |-> bytes[1], g |-> bytes[2], b |-> bytes[3], a |-> bytes[0]]

to_bgra_u32(en, self) ==
    LET bytes == [i \in 0..3 |->
                    CASE i = 1 -> self.r [] i = 2 -> self.g
                      [] i = 3 -> self.b [] i = 0 -> self.a]
    IN  from_ne_bytes(en, bytes)

(***************************************************************************)
(* LinearColor: four f32 channels r, g, b, a, and the conversions between  *)
(* the two colour types.  to_encoded_space has one result for each         *)
(* combination of the results of the channels' powf calls.                 *)
(***************************************************************************)
\* The bits of an f32 (f32::to_bits): the sign, the biased exponent and the
\* fraction, as a u32.  NaN is the quiet NaN 0x7fc00000.
F32ToBits(x) ==
    LET f == CASE x.cls = "nan" -> [sign |-> 0, exp |-> 255, frac |-> 2^22]
               [] x.cls = "inf" -> [sign |-> x.sign, exp |-> 255, frac |-> 0]
               [] x.m < 2^23 -> [sign |-> x.sign, exp |-> 0, frac |-> x.m]
               [] OTHER -> [sign |-> x.sign, exp |-> x.e + 150, frac |-> x.m - 2^23]
    IN  U32OfBytes(f.sign * 128 + f.exp \div 2, (f.exp % 2) * 128 + f.frac \div 65536,
                   (f.frac \div 256) % 256, f.frac % 256)

\* The f32 of the bits (f32::from_bits).
F32FromBits(x) ==
    LET sign == ByteOf(x, 3) \div 128
        exp == (ByteOf(x, 3) % 128) * 2 + ByteOf(x, 2) \div 128
        frac == (ByteOf(x, 2) % 128) * 65536 + ByteOf(x, 1) * 256 + ByteOf(x, 0)
    IN  IF exp = 255 THEN (IF frac = 0 THEN Infinity(sign) ELSE NaN)
        ELSE IF exp = 0 THEN Finite(sign, frac, -149)
        ELSE Finite(sign, 2^23 + frac, exp - 150)

\* impl From<LinearColor> for [f32; 4], which to_array calls
to_array(self) == <<self.r, self.g, self.b, self.a>>

\* to_bits: the array's 16 bytes, element after element.
to_bits(en, self) ==
    LET array == to_array(self)
    IN  [i \in 0..15 |-> to_ne_bytes(en, F32ToBits(array[(i \div 4) + 1]))[i % 4]]

\* from_bits: the 16 bytes become the struct's memory; LinearColor has the
\* default representation, so its fields lie in the order the compiler chose,
\* order[k] being the field at the offset 4 * (k - 1).
from_bits(en, order, value) ==
    LET at(k) == F32FromBits(from_ne_bytes(en, [i \in 0..3 |-> value[4 * (k - 1) + i]]))
        field(f) == at(CHOOSE k \in 1..4 : order[k] = f)
    IN  [r |-> field("r"), g |-> field("g"), b |-> field("b"), a |-> field("a")]

\* to_linear with the red and blue channels in each other's place.
to_linear_bgr(self) ==
    [r |-> encoded_to_linear(self.b),
     g |-> encoded_to_linear(self.g),
     b |-> encoded_to_linear(self.r),
     a |-> F32Div(U8AsF32(self.a), Lit_255_0)]

\* impl EncodedColor: to_linear
to_linear(self) ==
    [r |-> encoded_to_linear(self.r),
     g |-> encoded_to_linear(self.g),
     b |-> encoded_to_linear(self.b),
     a |-> F32Div(U8AsF32(self.a), Lit_255_0)]

\* to_encoded_space with alpha rounded to the nearest byte: (self.a * 255.0 + 0.5) as u8.
to_encoded_space_rounded_alpha(self) ==
    {[r |-> r, g |-> g, b |-> b,
      a |-> F32AsU8(F32Add(F32Mul(self.a, Lit_255_0), F32Lit(5, 1)))] :
         r \in linear_to_encoded(self.r),
         g \in linear_to_encoded(self.g),
         b \in linear_to_encoded(self.b)}

\* impl LinearColor: to_encoded_space
to_encoded_space(self) ==
    {[r |-> r, g |-> g, b |-> b,
      a |-> F32AsU8(F32Mul(self.a, Lit_255_0))] :
         r \in linear_to_encoded(self.r),
         g \in linear_to_encoded(self.g),
         b \in linear_to_encoded(self.b)}

(***************************************************************************)
(* Text.  A string is the sequence of its characters.                      *)
(*                                                                         *)
(* fmt_u32 is core's integer formatting, which LowerHex and UpperHex of    *)
(* EncodedColor delegate to: the digits of the value in the radix, most    *)
(* significant first, at least one digit and no leading zero; the          *)
(* alternate flag (#) puts 0x in front of hexadecimal digits.              *)
(***************************************************************************)
LowerDigits == <<"0", "1", "2", "3", "4", "5", "6", "7", "8", "9", "a", "b", "c", "d", "e", "f">>
UpperDigits == <<"0", "1", "2", "3", "4", "5", "6", "7", "8", "9", "A", "B", "C", "D", "E", "F">>

Digit(n, upper) == IF upper THEN UpperDigits[n + 1] ELSE LowerDigits[n + 1]

RECURSIVE fmt_radix(_, _, _)
fmt_radix(x, radix, upper) ==
    LET qr == BigDivMod(x, radix)
    IN  IF qr.q = <<>> THEN <<Digit(qr.r, upper)>>
        ELSE fmt_radix(qr.q, radix, upper) \o <<Digit(qr.r, upper)>>

fmt_hex(x, upper, alternate) ==
    (IF alternate THEN <<"0", "x">> ELSE <<>>) \o fmt_radix(x, 16, upper)

\* {} and {:x} of a u8
fmt_u8(n) == fmt_radix(BigOfInt(n), 10, FALSE)
fmt_u8_x(n) == fmt_radix(BigOfInt(n), 16, FALSE)

\* LowerHex formatting the BGRA packing.
LowerHex_fmt_bgra(en, self, alternate) ==
    LET v == to_bgra_u32(en, self)
    IN  fmt_hex(v, FALSE, alternate)

\* impl fmt::LowerHex for EncodedColor
LowerHex_fmt(en, self, alternate) ==
    LET v == to_rgba_u32(en, self)
    IN  fmt_hex(v, FALSE, alternate)

\* impl fmt::UpperHex for EncodedColor
UpperHex_fmt(en, self, alternate) ==
    LET v == to_rgba_u32(en, self)
    IN  fmt_hex(v, TRUE, alternate)

\* The last four arguments of Display's format string: {:x}{:x}{:x}{:x}
Display_hex(self) ==
    fmt_u8_x(self.r) \o fmt_u8_x(self.g) \o fmt_u8_x(self.b) \o fmt_u8_x(self.a)

\* impl fmt::Display for EncodedColor: "r: {}, g: {}, b: {}, a: {}, {:x}{:x}{:x}{:x}"
Display_fmt(self) ==
    <<"r", ":", " ">> \o fmt_u8(self.r) \o <<",", " ", "g", ":", " ">> \o fmt_u8(self.g)
        \o <<",", " ", "b", ":", " ">> \o fmt_u8(self.b)
        \o <<",", " ", "a", ":", " ">> \o fmt_u8(self.a)
        \o <<",", " ">> \o Display_hex(self)

(***************************************************************************)
(* The caller.  The inputs are colours and integers over a sample of byte  *)
(* values: the bytes of the colour the tests use, a byte below 16 (one hex *)
(* digit) and further bytes as the sample grows.                           *)
(***************************************************************************)
NumSampleBytes == 5
MaxCalls == 2

SampleByteList == <<107, 158, 190, 255, 1, 0, 16, 128, 66, 240>>

SampleBytes == {SampleByteList[i] : i \in 1..Min(NumSampleBytes, Len(SampleByteList))}

SampleColors == [r : SampleBytes, g : SampleBytes, b : SampleBytes, a : SampleBytes]

SampleU32s == {U32OfBytes(c.r, c.g, c.b, c.a) : c \in SampleColors}

Endians == {"little", "big"}

\* The order in which LinearColor declares its fields.  Only from_bits depends
\* on the order in memory; SpecBits lets it be any order.
DeclaredOrder == <<"r", "g", "b", "a">>

\* One call: the operation named name takes the current value, of type from,
\* to result, of type to.
Call(name, from, to, result) ==
    /\ kind = from
    /\ Len(calls) < MaxCalls
    /\ val' = result
    /\ kind' = to
    /\ calls' = Append(calls, name)
    /\ UNCHANGED <<endian, layout, arg>>

(***************************************************************************)
(* SpecPack: the packed-integer conversions, from a colour or from a u32.  *)
(***************************************************************************)
InitPack ==
    /\ endian \in Endians
    /\ layout = DeclaredOrder
    /\ calls = <<>>
    /\ \/ kind = "EncodedColor" /\ arg \in SampleColors
       \/ kind = "u32" /\ arg \in SampleU32s
    /\ val = arg

ToRgbaU32 == Call("to_rgba_u32", "EncodedColor", "u32", to_rgba_u32(endian, val))
FromRgbaU32 == Call("from_rgba_u32", "u32", "EncodedColor", from_rgba_u32(endian, val))
ToBgraU32 == Call("to_bgra_u32", "EncodedColor", "u32", to_bgra_u32(endian, val))
FromBgraU32 == Call("from_bgra_u32", "u32", "EncodedColor", from_bgra_u32(endian, val))

FromBitsU32 == Call("from_bits_u32", "u32", "EncodedColor", from_bits_u32(endian, val))

NextPack == ToRgbaU32 \/ FromRgbaU32 \/ ToBgraU32 \/ FromBgraU32 \/ FromBitsU32

SpecPack == InitPack /\ [][NextPack]_vars

(***************************************************************************)
(* SpecFmt: the text forms of a colour.                                    *)
(***************************************************************************)
InitFmt ==
    /\ endian \in Endians
    /\ layout = DeclaredOrder
    /\ calls = <<>>
    /\ kind = "EncodedColor"
    /\ arg \in SampleColors
    /\ val = arg

LowerHex ==
    \E alternate \in BOOLEAN :
        Call(IF alternate THEN "{:#x}" ELSE "{:x}", "EncodedColor", "String",
             LowerHex_fmt(endian, val, alternate))

UpperHex ==
    \E alternate \in BOOLEAN :
        Call(IF alternate THEN "{:#X}" ELSE "{:X}", "EncodedColor", "String",
             UpperHex_fmt(endian, val, alternate))

Display == Call("{}", "EncodedColor", "String", Display_fmt(val))

NextFmt == LowerHex \/ UpperHex \/ Display

SpecFmt == InitFmt /\ [][NextFmt]_vars

(***************************************************************************)
(* The claims about the packed integers and the text forms.                *)
(***************************************************************************)
\* The colour of the tests: (107, 158, 190, 255), 0x6b9ebeff as RGBA and
\* 0xbe9e6bff as BGRA.
Cornwall == new(107, 158, 190, 255)
CornwallRgba == BigAdd(BigMul(BigOfInt(27550), BigOfInt(65536)), BigOfInt(48895))
CornwallBgra == BigAdd(BigMul(BigOfInt(48798), BigOfInt(65536)), BigOfInt(27647))

\* b3 * 2^24 + b2 * 2^16 + b1 * 2^8 + b0
Weighted(b3, b2, b1, b0) ==
    BigAdd(BigAdd(BigMul(BigOfInt(b3), BigPow(<<2>>, 24)),
                  BigMul(BigOfInt(b2), BigPow(<<2>>, 16))),
           BigAdd(BigMul(BigOfInt(b1), BigPow(<<2>>, 8)), BigOfInt(b0)))

\* C4: on a little-endian platform to_rgba_u32 returns r*2^24 + g*2^16 + b*2^8 + a
\* and to_bgra_u32 returns b*2^24 + g*2^16 + r*2^8 + a; the colour
\* (107,158,190,255) gives 0x6b9ebeff and 0xbe9e6bff.
C4_PackedValueLittleEndian ==
    endian = "little" =>
        /\ calls = <<"to_rgba_u32">> =>
              /\ val = Weighted(arg.r, arg.g, arg.b, arg.a)
              /\ arg = Cornwall => val = CornwallRgba
        /\ calls = <<"to_bgra_u32">> =>
              /\ val = Weighted(arg.b, arg.g, arg.r, arg.a)
              /\ arg = Cornwall => val = CornwallBgra

C4_Witness ==
    /\ endian = "little"
    /\ calls = <<"to_bgra_u32">>
    /\ arg = Cornwall
    /\ val = CornwallBgra

\* C5: each packed conversion pair is a bijection: from_rgba_u32(to_rgba_u32(c)) = c
\* and from_bgra_u32(to_bgra_u32(c)) = c for every colour c, and
\* to_rgba_u32(from_rgba_u32(x)) = x and to_bgra_u32(from_bgra_u32(x)) = x for
\* every u32 x.
C5_PackedRoundTrip ==
    (\/ calls = <<"to_rgba_u32", "from_rgba_u32">>
     \/ calls = <<"to_bgra_u32", "from_bgra_u32">>
     \/ calls = <<"from_rgba_u32", "to_rgba_u32">>
     \/ calls = <<"from_bgra_u32", "to_bgra_u32">>) => val = arg

C5_Witness ==
    /\ calls = <<"from_bgra_u32", "to_bgra_u32">>
    /\ arg = CornwallBgra
    /\ val = arg

\* C6, as claimed: in both packed formats the most significant byte of the
\* integer is alpha, for every colour.
C6_AlphaMostSignificant ==
    (calls = <<"to_rgba_u32">> \/ calls = <<"to_bgra_u32">>) => ByteOf(val, 3) = arg.a

\* C6, amended: on a little-endian platform alpha is the least significant byte
\* of both packed integers, and the most significant byte is red (RGBA) or blue
\* (BGRA); alpha is the most significant byte only on a big-endian platform.
C6_AlphaLeastSignificantLittleEndian ==
    /\ (endian = "little" /\ calls = <<"to_rgba_u32">>) =>
            ByteOf(val, 0) = arg.a /\ ByteOf(val, 3) = arg.r
    /\ (endian = "little" /\ calls = <<"to_bgra_u32">>) =>
            ByteOf(val, 0) = arg.a /\ ByteOf(val, 3) = arg.b
    /\ (endian = "big" /\ (calls = <<"to_rgba_u32">> \/ calls = <<"to_bgra_u32">>)) =>
            ByteOf(val, 3) = arg.a

C6_Witness ==
    /\ endian = "little"
    /\ calls = <<"to_bgra_u32">>
    /\ arg.a # arg.b
    /\ ByteOf(val, 0) = arg.a
    /\ ByteOf(val, 3) # arg.a

\* The hexadecimal digits of a u32, read off its eight 4-bit groups: the groups
\* from the most significant one, without the leading zero groups.
Nibble(x, k) == BigModSmall(BigShr(x, 4 * k), 16)

RECURSIVE StripZeros(_)
StripZeros(s) == IF Len(s) > 1 /\ s[1] = "0" THEN StripZeros(Tail(s)) ELSE s

HexDigitsOf(x, upper) == StripZeros([i \in 1..8 |-> Digit(Nibble(x, 8 - i), upper)])

\* C7: lowercase and uppercase hexadecimal formatting output exactly the hex
\* digits of the integer to_rgba_u32(c), never those of the BGRA packing, in
\* lower or upper case, the alternate form adding the 0x prefix;
\* (107,158,190,255) formats as "6b9ebeff" and "0x6B9EBEFF".
C7_HexFormatsRgba ==
    LET rgba == to_rgba_u32(endian, arg)
        bgra == to_bgra_u32(endian, arg)
    IN  /\ calls = <<"{:x}">> =>
              /\ val = HexDigitsOf(rgba, FALSE)
              /\ arg.r # arg.b => val # HexDigitsOf(bgra, FALSE)
              /\ (endian = "little" /\ arg = Cornwall) =>
                    val = <<"6", "b", "9", "e", "b", "e", "f", "f">>
        /\ calls = <<"{:#x}">> => val = <<"0", "x">> \o HexDigitsOf(rgba, FALSE)
        /\ calls = <<"{:X}">> =>
              /\ val = HexDigitsOf(rgba, TRUE)
              /\ arg.r # arg.b => val # HexDigitsOf(bgra, TRUE)
        /\ calls = <<"{:#X}">> =>
              /\ val = <<"0", "x">> \o HexDigitsOf(rgba, TRUE)
              /\ (endian = "little" /\ arg = Cornwall) =>
                    val = <<"0", "x", "6", "B", "9", "E", "B", "E", "F", "F">>

C7_Witness ==
    /\ endian = "little"
    /\ calls = <<"{:#X}">>
    /\ arg = Cornwall
    /\ val = <<"0", "x", "6", "B", "9", "E", "B", "E", "F", "F">>

\* The part of a Display text after its last space.
RECURSIVE AfterLastSpace(_)
AfterLastSpace(s) ==
    IF \E i \in 1..Len(s) : s[i] = " " THEN AfterLastSpace(Tail(s)) ELSE s

\* C8, as claimed: the hex part of the Display form is the lowercase hex
\* rendering of to_rgba_u32(c), the digits LowerHex formatting produces.
\* It is stated for a little-endian platform, the one the claim's example is of.
C8_DisplayHexIsLowerHex ==
    (endian = "little" /\ calls = <<"{}">>) =>
        AfterLastSpace(val) = LowerHex_fmt(endian, arg, FALSE)

(***************************************************************************)
(* Serde.  A document is a sequence of numbers, each a fraction num / den  *)
(* (den = 1 for an integer), as a self-describing format such as JSON or   *)
(* YAML holds them.  A Result is [ok |-> TRUE, value |-> v] or             *)
(* [ok |-> FALSE, err |-> e].                                              *)
(***************************************************************************)
Number(num, den) == [num |-> num, den |-> den]
Integer(n) == Number(n, 1)

Ok(v) == [ok |-> TRUE, value |-> v]
Err(e) == [ok |-> FALSE, err |-> e]

\* serialize with the fields written blue first.
serialize_bgra(self) ==
    <<Integer(self.b), Integer(self.g), Integer(self.r), Integer(self.a)>>

\* impl serde::Serialize for EncodedColor: a tuple struct of the four fields.
serialize(self) ==
    <<Integer(self.r), Integer(self.g), Integer(self.b), Integer(self.a)>>

\* The element type's own deserializer (u8): the number must be an integer in
\* 0..255.
u8_deserialize(e) ==
    IF e.num % e.den # 0 THEN Err([kind |-> "invalid_value", what |-> "not an integer"])
    ELSE IF e.num \div e.den < 0 \/ e.num \div e.den > 255
         THEN Err([kind |-> "invalid_value", what |-> "out of range"])
         ELSE Ok(e.num \div e.den)

\* SeqAccess::next_element at position i (from 0) of the document seq:
\* Ok(None) at the end, else the element deserialized as a u8.
None == [none |-> TRUE]
Some(v) == [none |-> FALSE, some |-> v]

next_element(seq, i) ==
    IF i >= Len(seq) THEN Ok(None)
    ELSE LET e == u8_deserialize(seq[i + 1])
         IN  IF e.ok THEN Ok(Some(e.value)) ELSE e

invalid_length(n) == [kind |-> "invalid_length", len |-> n]

\* One field of visit_seq: seq.next_element()?.ok_or_else(|| invalid_length(i))?
field(seq, i) ==
    LET e == next_element(seq, i)
    IN  IF ~e.ok THEN e
        ELSE IF e.value.none THEN Err(invalid_length(i))
        ELSE Ok(e.value.some)

\* visit_seq with a missing alpha read as opaque.
visit_seq_default_alpha(seq) ==
    LET r == field(seq, 0)
        g == field(seq, 1)
        b == field(seq, 2)
        a == field(seq, 3)
    IN  IF ~r.ok THEN r
        ELSE IF ~g.ok THEN g
        ELSE IF ~b.ok THEN b
        ELSE IF ~a.ok /\ a.err.kind # "invalid_length" THEN a
        ELSE Ok([r |-> r.value, g |-> g.value, b |-> b.value,
                 a |-> IF a.ok THEN a.value ELSE 255])

\* DeserializeColor::visit_seq
visit_seq(seq) ==
    LET r == field(seq, 0)
        g == field(seq, 1)
        b == field(seq, 2)
        a == field(seq, 3)
    IN  IF ~r.ok THEN r
        ELSE IF ~g.ok THEN g
        ELSE IF ~b.ok THEN b
        ELSE IF ~a.ok THEN a
        ELSE Ok([r |-> r.value, g |-> g.value, b |-> b.value, a |-> a.value])

\* deserializer.deserialize_tuple_struct(ENCODED_NAME, 4, DeserializeColor) of a
\* self-describing format: the visitor reads the sequence, and the format
\* rejects a sequence the visitor did not read to its end.
deserialize(seq) ==
    LET v == visit_seq(seq)
    IN  IF ~v.ok THEN v
        ELSE IF Len(seq) > 4 THEN Err(invalid_length(Len(seq)))
        ELSE v

MaxSeqLen == 5

SampleNumbers ==
    {Integer(-20), Number(1, 5), Integer(0), Integer(50), Integer(255), Integer(256)}

RECURSIVE SeqsOfLen(_)
SeqsOfLen(n) ==
    IF n = 0 THEN {<<>>}
    ELSE {Append(s, e) : s \in SeqsOfLen(n - 1), e \in SampleNumbers}

SampleDocuments == UNION {SeqsOfLen(n) : n \in 0..MaxSeqLen}

(***************************************************************************)
(* SpecSerde: serializing a colour and deserializing a document.           *)
(***************************************************************************)
InitSerde ==
    /\ endian \in Endians
    /\ layout = DeclaredOrder
    /\ calls = <<>>
    /\ \/ kind = "EncodedColor" /\ arg \in SampleColors
       \/ kind = "Document" /\ arg \in SampleDocuments
    /\ val = arg

Serialize == Call("serialize", "EncodedColor", "Document", serialize(val))
Deserialize == Call("deserialize", "Document", "Result", deserialize(val))

NextSerde == Serialize \/ Deserialize

SpecSerde == InitSerde /\ [][NextSerde]_vars

IsU8(e) == e.den = 1 /\ e.num \in Byte

C10_SerializeRoundTrip ==
    /\ calls = <<"serialize">> =>
          val = <<Integer(arg.r), Integer(arg.g), Integer(arg.b), Integer(arg.a)>>
    /\ calls = <<"serialize", "deserialize">> => val = Ok(arg)

C10_Witness ==
    /\ calls = <<"serialize", "deserialize">>
    /\ arg = new(107, 158, 190, 255)
    /\ val = Ok(arg)

(***************************************************************************)
(* SpecLut: the lookup table against the test's f64 computation, from any  *)
(* byte.                                                                   *)
(***************************************************************************)
InitLut ==
    /\ endian \in Endians
    /\ layout = DeclaredOrder
    /\ calls = <<>>
    /\ kind = "u8"
    /\ arg \in Byte
    /\ val = arg

EncodedToLinear == Call("encoded_to_linear", "u8", "f32", encoded_to_linear(val))

HighPrecision ==
    /\ kind = "u8"
    /\ \E result \in srgb_to_linear_high_precision(val) :
          Call("srgb_to_linear_high_precision", "u8", "f32", result)

NextLut == EncodedToLinear \/ HighPrecision

SpecLut == InitLut /\ [][NextLut]_vars

(***************************************************************************)
(* SpecTransfer: the two transfer functions, from any byte and from f32     *)
(* values in and out of [0, 1].                                            *)
(***************************************************************************)
NumSampleF32s == 8

\* NaN, -1.0, +infinity, 2.0, 1.0, 0.5, 0.0, -infinity, 0.001, f32::MAX, -0.0,
\* the least subnormal and -0.5
SampleF32List ==
    <<NaN, F32Neg(F32Lit(10, 1)), Infinity(0), F32Lit(20, 1), F32Lit(10, 1),
      F32Lit(5, 1), F32Lit(0, 1), Infinity(1), F32Lit(1, 3), Finite(0, 2^24 - 1, 104),
      F32Neg(F32Lit(0, 1)), Finite(0, 1, -149), F32Neg(F32Lit(5, 1))>>

SampleF32s(n) == {SampleF32List[i] : i \in 1..Min(n, Len(SampleF32List))}

InitTransfer ==
    /\ endian \in Endians
    /\ layout = DeclaredOrder
    /\ calls = <<>>
    /\ \/ kind = "u8" /\ arg \in Byte
       \/ kind = "f32" /\ arg \in SampleF32s(NumSampleF32s)
    /\ val = arg

LinearToEncoded ==
    /\ kind = "f32"
    /\ \E result \in linear_to_encoded(val) :
          Call("linear_to_encoded", "f32", "u8", result)

NextTransfer == EncodedToLinear \/ LinearToEncoded

SpecTransfer == InitTransfer /\ [][NextTransfer]_vars

(***************************************************************************)
(* SpecColor: the conversions between the two colour types.  The colour    *)
(* channels are drawn from the first NumSampleChannels sample bytes and    *)
(* floats, alpha from the first NumSampleBytes and NumSampleFloats; and    *)
(* every byte is the red channel and the alpha of one colour.              *)
(***************************************************************************)
NumSampleChannels == 2
NumSampleFloats == 6

\* 0.5, 1.0, 0.0, 0.999, 0.25, 0.75, 0.1, 0.2158605
SampleFloatList ==
    <<F32Lit(5, 1), F32Lit(10, 1), F32Lit(0, 1), F32Lit(999, 3), F32Lit(25, 2),
      F32Lit(75, 2), F32Lit(1, 1), F32Lit(2158605, 7)>>

SampleFloats(n) == {SampleFloatList[i] : i \in 1..Min(n, Len(SampleFloatList))}

ChannelBytes == {SampleByteList[i] : i \in 1..Min(NumSampleChannels, Len(SampleByteList))}

\* The sample colours, and every byte as a colour channel and as alpha.
SampleEncodedColors ==
    [r : ChannelBytes, g : ChannelBytes, b : ChannelBytes, a : SampleBytes]
        \cup {new(c, 0, 0, c) : c \in Byte}

SampleLinearColors ==
    [r : SampleFloats(NumSampleChannels), g : SampleFloats(NumSampleChannels),
     b : SampleFloats(NumSampleChannels), a : SampleFloats(NumSampleFloats)]

InitColor ==
    /\ endian \in Endians
    /\ layout = DeclaredOrder
    /\ calls = <<>>
    /\ \/ kind = "EncodedColor" /\ arg \in SampleEncodedColors
       \/ kind = "LinearColor" /\ arg \in SampleLinearColors
    /\ val = arg

ToLinear == Call("to_linear", "EncodedColor", "LinearColor", to_linear(val))

ToEncodedSpace ==
    /\ kind = "LinearColor"
    /\ \E result \in to_encoded_space(val) :
          Call("to_encoded_space", "LinearColor", "EncodedColor", result)

NextColor == ToLinear \/ ToEncodedSpace

SpecColor == InitColor /\ [][NextColor]_vars

\* C1: for every byte c, the table entry ENCODED_TO_LINEAR_LUT[c], which is what
\* encoded_to_linear(c) returns, is the f32 that the sRGB EOTF computed in f64
\* and cast to f32 gives, whatever the f64 rounding: the power branch for the
\* bytes 11..=255 and the linear branch for the bytes 0..=10.
C1_LutIsHighPrecisionEotf ==
    /\ calls = <<"srgb_to_linear_high_precision">> =>
          /\ val = encoded_to_linear(arg)
          /\ val = ENCODED_TO_LINEAR_LUT[arg]
    /\ (calls = <<>> /\ kind = "u8") => AboveThreshold(arg) = {arg >= 11}

C1_Witness ==
    /\ calls = <<"srgb_to_linear_high_precision">>
    /\ arg = 128
    /\ val = ENCODED_TO_LINEAR_LUT[128]

\* C2: for every byte c, linear_to_encoded(encoded_to_linear(c)) is c, whichever
\* result powf gives.
C2_TransferRoundTrip ==
    calls = <<"encoded_to_linear", "linear_to_encoded">> => val = arg

C2_Witness ==
    /\ calls = <<"encoded_to_linear", "linear_to_encoded">>
    /\ arg = 255
    /\ val = 255

Lit_0_5 == F32Lit(5, 1)

\* x is finite, not negative and at most 1.0.
InUnit(x) == x.cls = "finite" /\ (x.sign = 0 \/ x.m = 0) /\ F32Ge(Lit_1_0, x)

\* x is the f32 nearest to n / d, for 0 <= n <= d <= 255: n / d is no further
\* from x than from the f32 values next to it.
IsNearestF32(x, n, d) ==
    /\ x.cls = "finite" /\ x.sign = 0 /\ x.e < 0
    /\ LET v4 == BigShl(BigOfInt(4 * n), 0 - x.e)
           x4 == BigMulSmall(BigOfInt(x.m), 4 * d)
           below == IF x.m = 2^23 THEN d ELSE 2 * d
       IN  /\ BigLe(v4, BigAdd(x4, BigOfInt(2 * d)))
           /\ BigLe(x4, BigAdd(v4, BigOfInt(below)))

\* floor(x) for a finite x >= 0 below 2^30
Floor(x) == BigToInt(BigScale(BigOfInt(x.m), x.e))

\* floor(255 * x + 1/2) for the real value of a finite x >= 0 with a negative exponent
RoundTimes255(x) ==
    BigToInt(BigShr(BigAdd(BigMulSmall(BigOfInt(x.m), 510), BigShl(<<1>>, 0 - x.e)), 1 - x.e))

\* C3 as stated: the alpha of to_encoded_space is l.a * 255 rounded to the
\* nearest byte, 128 for alpha 0.5.
C3_AlphaRoundsToNearest ==
    (calls = <<"to_encoded_space">> /\ InUnit(arg.a)) => val.a = RoundTimes255(arg.a)

\* C3: alpha converts by scaling alone.  The alpha of c.to_linear() is the f32
\* nearest to c.a / 255, and the alpha of l.to_encoded_space(), for l.a in
\* [0, 1], is the f32 product l.a * 255.0 truncated to its integer part:
\* 127 for alpha 0.5.
C3_AlphaScalesAndTruncates ==
    /\ calls = <<"to_linear">> =>
          /\ IsNearestF32(val.a, arg.a, 255)
          /\ arg.a = 255 => val.a = Lit_1_0
    /\ (calls = <<"to_encoded_space">> /\ InUnit(arg.a)) =>
          /\ val.a = Floor(F32Mul(arg.a, Lit_255_0))
          /\ arg.a = Lit_0_5 => val.a = 127
          /\ arg.a = Lit_1_0 => val.a = 255

C3_Witness ==
    /\ calls = <<"to_encoded_space">>
    /\ arg.a = Lit_0_5
    /\ val.a = 127

(***************************************************************************)
(* SpecConvert: every numeric conversion, from any byte, from f32 values   *)
(* in and out of [0, 1] and from colours whose channels are the first      *)
(* NumSpecialChannels of those values.                                     *)
(***************************************************************************)
NumSpecialChannels == 3

SpecialLinearColors ==
    [r : SampleF32s(NumSpecialChannels), g : SampleF32s(NumSpecialChannels),
     b : SampleF32s(NumSpecialChannels), a : SampleF32s(NumSpecialChannels)]

InitConvert ==
    /\ endian \in Endians
    /\ layout = DeclaredOrder
    /\ calls = <<>>
    /\ \/ kind = "u8" /\ arg \in Byte
       \/ kind = "f32" /\ arg \in SampleF32s(NumSampleF32s)
       \/ kind = "LinearColor" /\ arg \in SpecialLinearColors
    /\ val = arg

NextConvert == EncodedToLinear \/ LinearToEncoded \/ ToLinear \/ ToEncodedSpace

SpecConvert == InitConvert /\ [][NextConvert]_vars

\* The last call made.
LastCall == IF calls = <<>> THEN "" ELSE calls[Len(calls)]

\* C11: the numeric conversions are total.  Every byte a caller holds is an
\* index of the 256-entry table, and for every f32, negative, above 1.0, NaN
\* and the infinities included, linear_to_encoded has a result and it is a byte,
\* as LinearColor::to_encoded_space has a result and it is an EncodedColor.
C11_ConversionsAreTotal ==
    /\ DOMAIN ENCODED_TO_LINEAR_LUT = 0..255
    /\ kind = "u8" => val \in DOMAIN ENCODED_TO_LINEAR_LUT
    /\ LastCall = "encoded_to_linear" => val.cls \in {"finite", "inf", "nan"}
    /\ LastCall = "linear_to_encoded" => val \in Byte
    /\ LastCall = "to_encoded_space" => val \in EncodedColor
    /\ (calls = <<>> /\ kind = "f32") =>
          linear_to_encoded(arg) # {} /\ linear_to_encoded(arg) \subseteq Byte
    /\ (calls = <<>> /\ kind = "LinearColor") =>
          to_encoded_space(arg) # {} /\ to_encoded_space(arg) \subseteq EncodedColor

C11_Witness ==
    /\ calls = <<"to_encoded_space">>
    /\ arg = [r |-> NaN, g |-> F32Neg(Lit_1_0), b |-> Infinity(0), a |-> NaN]
    /\ val = new(0, 0, 255, 0)

(***************************************************************************)
(* SpecConcurrent: NumThreads threads, each making one call of a           *)
(* conversion, the calls running a statement at a time in any              *)
(* interleaving.  Here kind, arg, calls and val are the threads': kind[t]  *)
(* is where thread t is ("idle", "running", "returned"), arg[t] its call   *)
(* (the operation and its argument), calls[t] the statements it has run    *)
(* and val[t] its locals and, in the end, its result.  The library has no  *)
(* static or other shared variable: ENCODED_TO_LINEAR_LUT is a const item, *)
(* so a statement reads the thread's own argument and locals and the       *)
(* constants only.                                                         *)
(***************************************************************************)
NumThreads == 2

Threads == 1..NumThreads

ConcurrentInputs ==
    [encoded_to_linear |-> {128, 255},
     linear_to_encoded |-> {Lit_1_0},
     to_linear |-> {new(107, 158, 190, 255), new(1, 0, 16, 128)},
     to_encoded_space |-> {[r |-> Lit_1_0, g |-> F32Lit(0, 1), b |-> F32Lit(1, 3), a |-> F32Lit(5, 1)]},
     to_rgba_u32 |-> {new(107, 158, 190, 255)},
     from_rgba_u32 |-> {U32OfBytes(1, 0, 16, 128)}]

Operations == DOMAIN ConcurrentInputs

\* The statements of each operation.
StepCount ==
    [encoded_to_linear |-> 1, linear_to_encoded |-> 2, to_linear |-> 4,
     to_encoded_space |-> 4, to_rgba_u32 |-> 5, from_rgba_u32 |-> 2]

\* The locals of a call before its first statement: let mut bytes = [0, 0, 0, 0]
\* in to_rgba_u32, nothing elsewhere.
InitialLocal(op) == IF op = "to_rgba_u32" THEN [i \in 0..3 |-> 0] ELSE <<>>

\* The argument of another call of the same operation, where there is one.
Input_of_first_caller(t) ==
    IF kind[1] # "idle" /\ arg[1].op = arg[t].op THEN arg[1].input ELSE arg[t].input

\* The argument of thread t's call.
Input(t) == arg[t].input

\* The locals of thread t after its statement i, or its result after the last.
StepOf(t, i) ==
    LET op == arg[t].op
        input == Input(t)
        local == val[t]
    IN  CASE op = "encoded_to_linear" -> {ENCODED_TO_LINEAR_LUT[input]}
          [] op = "linear_to_encoded" ->
                IF i = 1 THEN encoded_f32(input)
                ELSE {F32AsU8(F32Mul(local, Lit_256_0))}
          [] op = "to_linear" ->
                (CASE i = 1 -> {<<encoded_to_linear(input.r)>>}
                  [] i = 2 -> {Append(local, encoded_to_linear(input.g))}
                  [] i = 3 -> {Append(local, encoded_to_linear(input.b))}
                  [] i = 4 -> {[r |-> local[1], g |-> local[2], b |-> local[3],
                                a |-> F32Div(U8AsF32(input.a), Lit_255_0)]})
          [] op = "to_encoded_space" ->
                (CASE i = 1 -> {<<x>> : x \in linear_to_encoded(input.r)}
                  [] i = 2 -> {Append(local, x) : x \in linear_to_encoded(input.g)}
                  [] i = 3 -> {Append(local, x) : x \in linear_to_encoded(input.b)}
                  [] i = 4 -> {[r |-> local[1], g |-> local[2], b |-> local[3],
                                a |-> F32AsU8(F32Mul(input.a, Lit_255_0))]})
          [] op = "to_rgba_u32" ->
                (CASE i = 1 -> {[local EXCEPT ![3] = input.r]}
                  [] i = 2 -> {[local EXCEPT ![2] = input.g]}
                  [] i = 3 -> {[local EXCEPT ![1] = input.b]}
                  [] i = 4 -> {[local EXCEPT ![0] = input.a]}
                  [] i = 5 -> {from_ne_bytes(endian, local)})
          [] op = "from_rgba_u32" ->
                IF i = 1 THEN {to_ne_bytes(endian, input)}
                ELSE {[r |-> local[3], g |-> local[2], b |-> local[1], a |-> local[0]]}

InitConcurrent ==
    /\ endian \in Endians
    /\ layout = DeclaredOrder
    /\ kind = [t \in Threads |-> "idle"]
    /\ arg = [t \in Threads |-> [op |-> "none"]]
    /\ calls = [t \in Threads |-> <<>>]
    /\ val = [t \in Threads |-> <<>>]

\* Thread t calls an operation.
Begin(t) ==
    /\ kind[t] = "idle"
    /\ \E op \in Operations : \E input \in ConcurrentInputs[op] :
          /\ arg' = [arg EXCEPT ![t] = [op |-> op, input |-> input]]
          /\ val' = [val EXCEPT ![t] = InitialLocal(op)]
    /\ kind' = [kind EXCEPT ![t] = "running"]
    /\ UNCHANGED <<endian, layout, calls>>

\* Thread t runs the next statement of its call, and returns after the last.
Step(t) ==
    /\ kind[t] = "running"
    /\ LET i == Len(calls[t]) + 1
       IN  /\ \E result \in StepOf(t, i) : val' = [val EXCEPT ![t] = result]
           /\ calls' = [calls EXCEPT ![t] = Append(@, i)]
           /\ kind' = [kind EXCEPT ![t] = IF i = StepCount[arg[t].op] THEN "returned" ELSE "running"]
    /\ UNCHANGED <<endian, layout, arg>>

NextConcurrent == \E t \in Threads : Begin(t) \/ Step(t)

SpecConcurrent == InitConcurrent /\ [][NextConcurrent]_vars

\* The results of the operation op on input when it runs alone.
Alone(op, input) ==
    CASE op = "encoded_to_linear" -> {encoded_to_linear(input)}
      [] op = "linear_to_encoded" -> linear_to_encoded(input)
      [] op = "to_linear" -> {to_linear(input)}
      [] op = "to_encoded_space" -> to_encoded_space(input)
      [] op = "to_rgba_u32" -> {to_rgba_u32(endian, input)}
      [] op = "from_rgba_u32" -> {from_rgba_u32(endian, input)}

C13_FromBgraIsReinterpretation ==
    /\ (endian = "little" /\ calls = <<"from_bgra_u32">>) => val = from_bits_u32(endian, arg)
    /\ (endian = "little" /\ calls = <<"from_bits_u32">>) => val = from_bgra_u32(endian, arg)

(***************************************************************************)
(* SpecBits: LinearColor's reinterpretation as 16 bytes and back, under    *)
(* every order of the struct's fields a compiler may choose.               *)
(***************************************************************************)
Layouts ==
    {order \in [1..4 -> {"r", "g", "b", "a"}] :
        \A i, j \in 1..4 : order[i] = order[j] => i = j}

\* 0.5, 1.0, 0.0 and the least subnormal
OrdinaryLinearColor ==
    [r |-> F32Lit(5, 1), g |-> F32Lit(10, 1), b |-> F32Lit(0, 1), a |-> Finite(0, 1, -149)]

InitBits ==
    /\ endian \in Endians
    /\ layout \in Layouts
    /\ calls = <<>>
    /\ kind = "LinearColor"
    /\ arg \in SpecialLinearColors \cup {OrdinaryLinearColor}
    /\ val = arg

ToBits == Call("to_bits", "LinearColor", "[u8; 16]", to_bits(endian, val))
FromBits == Call("from_bits", "[u8; 16]", "LinearColor", from_bits(endian, layout, val))

NextBits == ToBits \/ FromBits

SpecBits == InitBits /\ [][NextBits]_vars

\* The byte i of to_bits(c), stated apart: the byte i % 4 of the channel i / 4.
ChannelByte(c, i) ==
    LET x == F32ToBits(CASE i \div 4 = 0 -> c.r [] i \div 4 = 1 -> c.g
                         [] i \div 4 = 2 -> c.b [] OTHER -> c.a)
    IN  IF endian = "little" THEN ByteOf(x, i % 4) ELSE ByteOf(x, 3 - (i % 4))

Saturated(p) ==
    IF p.cls = "nan" THEN 0
    ELSE IF ~F32Ge(p, F32Lit(0, 1)) THEN 0
    ELSE IF F32Ge(p, Lit_256_0) THEN 255
    ELSE Floor(p)

\* C15 as stated: linear_to_encoded returns floor(y * 256) saturated, and for
\* the input 1.0 y * 256 is 256, which saturates to 255.
C15_OneSaturates ==
    calls = <<"linear_to_encoded">> =>
        /\ val \in {Saturated(F32Mul(y, Lit_256_0)) : y \in encoded_f32(arg)}
        /\ arg = Lit_1_0 =>
              /\ val = 255
              /\ \A y \in encoded_f32(arg) : F32Mul(y, Lit_256_0) = Lit_256_0

\* C15: the final narrowing saturates and never wraps.  With y the computed
\* curve value, linear_to_encoded returns floor(y * 256) when
\* 0 <= y * 256 < 256, 255 when y * 256 >= 256 and 0 when y * 256 < 0 or is
\* NaN.  The input 1.0 gives 255 by truncation: its y is 1 - 2^-24, the f32
\* result of 1.055 * 1.0 - 0.055, so y * 256 is below 256.
C15_NarrowingSaturates ==
    calls = <<"linear_to_encoded">> =>
        /\ val \in {Saturated(F32Mul(y, Lit_256_0)) : y \in encoded_f32(arg)}
        /\ arg = Lit_1_0 =>
              /\ val = 255
              /\ encoded_f32(arg) = {Finite(0, 2^24 - 1, -24)}
              /\ \A y \in encoded_f32(arg) : ~F32Ge(F32Mul(y, Lit_256_0), Lit_256_0)

C15_Witness ==
    /\ calls = <<"linear_to_encoded">>
    /\ arg = F32Lit(20, 1)
    /\ \A y \in encoded_f32(arg) : F32Ge(F32Mul(y, Lit_256_0), Lit_256_0)
    /\ val = 255

\* a < b for two f32 values
F32Lt(a, b) == F32Ge(b, a) /\ ~F32Ge(a, b)

\* C16: the table is strictly increasing with exact endpoints: entry 0 is 0.0,
\* entry 255 is 1.0 and each entry is less than the next; so every result of
\* encoded_to_linear is in [0.0, 1.0] and no two bytes have the same result.
C16_LutStrictlyIncreasing ==
    /\ ENCODED_TO_LINEAR_LUT[0] = F32Lit(0, 1)
    /\ ENCODED_TO_LINEAR_LUT[255] = Lit_1_0
    /\ calls = <<"encoded_to_linear">> =>
          /\ val = ENCODED_TO_LINEAR_LUT[arg]
          /\ arg < 255 => F32Lt(val, ENCODED_TO_LINEAR_LUT[arg + 1])
          /\ InUnit(val)
          /\ \A other \in Byte \ {arg} : encoded_to_linear(other) # val

C16_Witness ==
    /\ calls = <<"encoded_to_linear">>
    /\ arg = 254
    /\ F32Lt(val, Lit_1_0)
    /\ F32Lt(ENCODED_TO_LINEAR_LUT[253], val)

\* C17: a colour's round trip through linear space is the identity:
\* c.to_linear().to_encoded_space() is c, whichever results powf gives, and the
\* alpha a / 255.0 * 255.0 truncates to a, not to a - 1, for every byte a.
C17_ColorRoundTrip ==
    /\ calls = <<"to_linear", "to_encoded_space">> => val = arg
    /\ calls = <<"to_linear">> => Floor(F32Mul(val.a, Lit_255_0)) = arg.a

C17_Witness ==
    /\ calls = <<"to_linear", "to_encoded_space">>
    /\ arg = new(254, 0, 0, 254)
    /\ val = arg

====
